---- MODULE Spec2Model ----
(***************************************************************************)
(* Model of the two CellProfiler plugins of this repository.               *)
(*                                                                         *)
(*   SeedObjects (seedobjects.py): run validates the structuring element   *)
(*   against the label array and then generate_seeds runs                  *)
(*   pad -> distance_transform_edt -> crop -> gaussian -> peak_local_max   *)
(*   -> binary_dilation on one buffer (`seeds`).                           *)
(*                                                                         *)
(*   MeasureImageQualityGoogle (measureimagequalitygoogle.py): run records *)
(*   one measurement per image set; get_measurement_columns declares the   *)
(*   columns.                                                              *)
(*                                                                         *)
(* The library routines generate_seeds calls are modelled by what they     *)
(* compute in the releases this Python 2 / CellProfiler 3 code runs on     *)
(* (scikit-image 0.13/0.14, scipy 0.19 to 1.2):                            *)
(*   - peak_local_max is the maximum-filter implementation: a pixel is a   *)
(*     candidate when it equals the maximum of its (2*min_distance+1)      *)
(*     window (zero outside the array), lies outside the excluded border   *)
(*     and is strictly above max(image.min(), threshold_rel*image.max());  *)
(*     the num_peaks highest are kept by argsort, whose order among equal  *)
(*     intensities is not specified and is a nondeterministic choice here. *)
(*   - arrays of floats hold IEEE 754 binary64 numbers, and every sum,     *)
(*     product, square root and comparison the routines make is made in    *)
(*     binary64, in the order the routines make them.  The Gaussian        *)
(*     weights are those scipy builds; where its releases build different  *)
(*     ones the Gaussian stage chooses among them.                         *)
(* An array is a record [shape, data] with data a function on Idx(shape);  *)
(* an index is a tuple of 0-based coordinates.  Strings that are formatted *)
(* are sequences of one-character strings.                                 *)
(***************************************************************************)
EXTENDS Integers, Sequences, FiniteSets, TLC

VARIABLES
    pc,           \* position in SeedObjects.run / generate_seeds
    labels,       \* x.segmented, the input label array
    settings,     \* the module's settings
    seeds,        \* the buffer generate_seeds rebinds at every stage
    peak_mask,    \* history: the output of peak_local_max, before dilation
    smoothed,     \* history: the field peak_local_max was given
    stages,       \* history: the numeric stages executed so far
    error,        \* the exception run raised, or NoError
    y,            \* the seed mask handed to the object set, or NoArray
    image_name,   \* MeasureImageQualityGoogle.image_name
    columns,      \* what get_measurement_columns last returned
    measurements, \* the add_image_measurement calls made, one per image set
    statistics    \* workspace.display_data.statistics

vars == <<pc, labels, settings, seeds, peak_mask, smoothed, stages, error, y,
          image_name, columns, measurements, statistics>>

seedVars == <<pc, labels, settings, seeds, peak_mask, smoothed, stages, error, y>>
miqVars == <<image_name, columns, measurements, statistics>>

----------------------------------------------------------------------------
(* Bounds of the model *)

MaxDist == 2
MaxSeeds == 2
MaxImageSets == 2
MaxIntensity == 2

----------------------------------------------------------------------------
(* Arrays *)

NoArray == [shape |-> <<>>, data |-> <<>>]

\* the function f with its values computed once, as an array stores them
Stored(f) == f @@ <<>>
NoError == [kind |-> "none"]

Axes(shape) == 1..Len(shape)

MaxExtent(shape) ==
    IF shape = <<>> THEN 0
    ELSE CHOOSE m \in {shape[k] : k \in Axes(shape)} :
             \A k \in Axes(shape) : shape[k] <= m

Idx(shape) ==
    {i \in [Axes(shape) -> 0..(MaxExtent(shape) - 1)] :
        \A k \in Axes(shape) : i[k] < shape[k]}

Ndim(a) == Len(a.shape)

TrueSet(a) == {i \in DOMAIN a.data : a.data[i]}

MaskArray(shape, on) == [shape |-> shape, data |-> [i \in Idx(shape) |-> i \in on]]

SetMin(S) == CHOOSE m \in S : \A v \in S : m <= v

Abs(n) == IF n < 0 THEN -n ELSE n

Dist2(i, j) ==
    LET n == Len(i)
        acc[k \in 0..n] ==
            IF k = 0 THEN 0 ELSE acc[k - 1] + (i[k] - j[k]) * (i[k] - j[k])
    IN acc[n]

\* j lies in the window of half-width d around i
InWindow(i, j, d) == \A k \in 1..Len(i) : Abs(i[k] - j[k]) <= d

----------------------------------------------------------------------------
(* The values of a float array: IEEE 754 binary64 numbers that are not
   negative. A number is Zero or [m, e] for m * 2^e, with m an integer of
   MantBits bits held as limbs (least significant first). Integers of any
   size, as limb sequences without a leading zero limb, carry the exact
   results that are then rounded. *)

LimbBits == 14
LimbBase == 2^LimbBits
MantBits == 53

Limb(u, k) == IF k <= Len(u) THEN u[k] ELSE 0

RECURSIVE Propagate(_, _)
Propagate(xs, c) ==
    IF xs = <<>>
    THEN IF c = 0 THEN <<>> ELSE <<c % LimbBase>> \o Propagate(<<>>, c \div LimbBase)
    ELSE <<(Head(xs) + c) % LimbBase>>
             \o Propagate(Tail(xs), (Head(xs) + c) \div LimbBase)

RECURSIVE Strip(_)
Strip(xs) ==
    IF xs = <<>> THEN <<>>
    ELSE IF xs[Len(xs)] = 0 THEN Strip(SubSeq(xs, 1, Len(xs) - 1)) ELSE xs

\* the integer whose limbs (not yet carried) are xs
Canon(xs) == Strip(Propagate(xs, 0))

Times(u, m) == Canon([k \in 1..Len(u) |-> u[k] * m])

BigAdd(u, v) ==
    LET len == IF Len(u) > Len(v) THEN Len(u) ELSE Len(v)
    IN Canon([k \in 1..len |-> Limb(u, k) + Limb(v, k)])

BigMul(u, v) ==
    IF v = <<>> \/ u = <<>> THEN <<>>
    ELSE LET limb(k) ==
                 LET lo == IF k > Len(v) THEN k + 1 - Len(v) ELSE 1
                     hi == IF k < Len(u) THEN k ELSE Len(u)
                     acc[i \in (lo - 1)..hi] ==
                         IF i = lo - 1 THEN 0 ELSE acc[i - 1] + u[i] * v[k + 1 - i]
                 IN acc[hi]
         IN Canon([k \in 1..(Len(u) + Len(v) - 1) |-> limb(k)])

BigLess(u, v) ==
    \/ Len(u) < Len(v)
    \/ /\ Len(u) = Len(v)
       /\ \E k \in 1..Len(u) :
              u[k] < v[k] /\ \A j \in (k + 1)..Len(u) : u[j] = v[j]

BigLeq(u, v) == u = v \/ BigLess(u, v)

\* the number of bits of the integer u
BitLen(u) ==
    IF u = <<>> THEN 0
    ELSE LimbBits * (Len(u) - 1)
             + CHOOSE b \in 1..LimbBits : 2^(b - 1) <= u[Len(u)] /\ u[Len(u)] < 2^b

\* u * 2^s
ShiftLeft(u, s) ==
    IF u = <<>> THEN <<>> ELSE [j \in 1..(s \div LimbBits) |-> 0] \o Times(u, 2^(s % LimbBits))

\* floor(u / 2^s)
ShiftRight(u, s) ==
    LET a == s \div LimbBits
        b == s % LimbBits
    IN Strip([k \in 1..(Len(u) - a) |->
                 (u[k + a] \div 2^b) + (Limb(u, k + a + 1) % 2^b) * 2^(LimbBits - b)])

\* bit i of u (bit 0 is the lowest)
BitAt(u, i) == (Limb(u, i \div LimbBits + 1) \div 2^(i % LimbBits)) % 2

\* the s lowest bits of u are zero
LowZero(u, s) ==
    /\ \A k \in 1..(s \div LimbBits) : Limb(u, k) = 0
    /\ Limb(u, s \div LimbBits + 1) % 2^(s % LimbBits) = 0

Zero == [m |-> <<>>, e |-> 0]

\* the binary64 nearest to u * 2^e, ties to the even mantissa
Round(u, e) ==
    IF u = <<>> THEN Zero
    ELSE LET len == BitLen(u)
             s == len - MantBits
         IN IF s <= 0 THEN [m |-> ShiftLeft(u, -s), e |-> e + s]
            ELSE LET q == ShiftRight(u, s)
                     up == /\ BitAt(u, s - 1) = 1
                           /\ ~LowZero(u, s - 1) \/ q[1] % 2 = 1
                     r == IF up THEN BigAdd(q, <<1>>) ELSE q
                 IN IF BitLen(r) > MantBits
                    THEN [m |-> ShiftRight(r, 1), e |-> e + s + 1]
                    ELSE [m |-> r, e |-> e + s]

\* the binary64 nearest to a number strictly between u * 2^e and (u + 1) * 2^e,
\* for u of more than MantBits + 1 bits
RoundAbove(u, e) == Round(BigAdd(Times(u, 2), <<1>>), e - 1)

\* float(n) for an integer n >= 0
Num(n) == Round(Canon(<<n>>), 0)

\* floor(u / d) and the remainder, for an integer d below 2^16
DivSmall(u, d) ==
    LET down[k \in 1..(Len(u) + 1)] ==
            IF k = Len(u) + 1 THEN [q |-> <<>>, r |-> 0]
            ELSE LET v == down[k + 1].r * LimbBase + u[k]
                 IN [q |-> <<v \div d>> \o down[k + 1].q, r |-> v % d]
    IN [q |-> Strip(down[1].q), r |-> down[1].r]

\* the binary64 nearest to t[1] / t[2]: a Float setting whose text is that ratio
FromRatio(t) ==
    LET d == DivSmall(ShiftLeft(Canon(<<t[1]>>), 6 * LimbBits), t[2])
    IN IF d.r = 0 THEN Round(d.q, -6 * LimbBits) ELSE RoundAbove(d.q, -6 * LimbBits)

\* x + y in binary64
Add(u, v) ==
    IF u = Zero THEN v
    ELSE IF v = Zero THEN u
    ELSE LET hi == IF u.e >= v.e THEN u ELSE v
             lo == IF u.e >= v.e THEN v ELSE u
             d == hi.e - lo.e
         IN IF d > MantBits + 2 THEN hi
            ELSE Round(BigAdd(ShiftLeft(hi.m, d), lo.m), lo.e)

\* x * y in binary64
Mul(u, v) ==
    IF u = Zero \/ v = Zero THEN Zero ELSE Round(BigMul(u.m, v.m), u.e + v.e)

Less(u, v) ==
    IF v = Zero THEN FALSE
    ELSE IF u = Zero THEN TRUE
    ELSE u.e < v.e \/ (u.e = v.e /\ BigLess(u.m, v.m))

Leq(u, v) == u = v \/ Less(u, v)

NumMax(S) == CHOOSE m \in S : \A v \in S : Leq(v, m)
NumMin(S) == CHOOSE m \in S : \A v \in S : Leq(m, v)

----------------------------------------------------------------------------
(* skimage.util.pad(labels, 1, mode='constant', constant_values=0) *)

Pad(a, w) ==
    LET s == [k \in Axes(a.shape) |-> a.shape[k] + 2 * w]
    IN [shape |-> s,
        data |-> [i \in Idx(s) |->
            IF \A k \in Axes(s) : i[k] >= w /\ i[k] < a.shape[k] + w
            THEN a.data[[k \in Axes(s) |-> i[k] - w]]
            ELSE 0]]

\* Crop as it would be with the crop width dropped
CropNothing(a, w) == a

(* skimage.util.crop(seeds, 1) *)
Crop(a, w) ==
    LET s == [k \in Axes(a.shape) |-> a.shape[k] - 2 * w]
    IN [shape |-> s,
        data |-> [i \in Idx(s) |-> a.data[[k \in Axes(s) |-> i[k] + w]]]]

\* the number of limbs after the point in the square root that is rounded
SqrtLimbs == 4

\* the greatest d in lo..hi with (r * LimbBase + d)^2 <= target
RECURSIVE SqrtDigit(_, _, _, _)
SqrtDigit(r, target, lo, hi) ==
    IF lo = hi THEN lo
    ELSE LET mid == (lo + hi + 1) \div 2
             cand == <<mid>> \o r
         IN IF BigLeq(BigMul(cand, cand), target)
            THEN SqrtDigit(r, target, mid, hi)
            ELSE SqrtDigit(r, target, lo, mid - 1)

\* floor(LimbBase^k * sqrt(d2)) for d2 > 0, one limb at a time
RECURSIVE SqrtTo(_, _)
SqrtTo(d2, k) ==
    IF k = 0
    THEN Canon(<<CHOOSE r \in 1..d2 : r * r <= d2 /\ (r + 1) * (r + 1) > d2>>)
    ELSE LET r == SqrtTo(d2, k - 1)
             target == [j \in 1..(2 * k) |-> 0] \o Canon(<<d2>>)
         IN IF BigMul(r, r) = SubSeq(target, 3, Len(target))
            THEN <<0>> \o r
            ELSE <<SqrtDigit(r, target, 0, LimbBase - 1)>> \o r

(* numpy.sqrt(d2) for an integer d2 > 0: the binary64 nearest to the root *)
FixSqrt(d2) ==
    LET r == SqrtTo(d2, SqrtLimbs)
    IN IF BigMul(r, r) = [j \in 1..(2 * SqrtLimbs) |-> 0] \o Canon(<<d2>>)
       THEN Round(r, -LimbBits * SqrtLimbs)
       ELSE RoundAbove(r, -LimbBits * SqrtLimbs)

(* scipy.ndimage.distance_transform_edt: the distance of every nonzero
   element to the nearest zero element, zero at the zero elements *)
DistanceTransformEdt(a) ==
    LET bg == {j \in DOMAIN a.data : a.data[j] = 0}
    IN [shape |-> a.shape,
        data |-> Stored([i \in DOMAIN a.data |->
            IF a.data[i] = 0 THEN Zero
            ELSE FixSqrt(SetMin({Dist2(i, j) : j \in bg}))])]

----------------------------------------------------------------------------
(* skimage.filters.gaussian(seeds, sigma), mode='nearest', truncate=4.0 *)

\* the weights of scipy's kernel at the offsets 0 .. int(4.0*sigma + 0.5):
\* exp(-0.5 / sigma^2 * x^2) divided by the sum over the whole kernel, in
\* binary64. The releases differ in how they sum (numpy's sum from 1.0 on, a
\* running sum before), so some sigma have two kernels.
GaussKernel(sigma) ==
    CASE sigma = 1 -> {<<[m |-> <<5371, 470, 1187, 1634>>, e |-> -54],
                          [m |-> <<6586, 11090, 3769, 1982>>, e |-> -55],
                          [m |-> <<6571, 13406, 2969, 1769>>, e |-> -57],
                          [m |-> <<12905, 11770, 12876, 1161>>, e |-> -60],
                          [m |-> <<14022, 16212, 10692, 1122>>, e |-> -65]>>,
                        <<[m |-> <<5372, 470, 1187, 1634>>, e |-> -54],
                          [m |-> <<6587, 11090, 3769, 1982>>, e |-> -55],
                          [m |-> <<6572, 13406, 2969, 1769>>, e |-> -57],
                          [m |-> <<12906, 11770, 12876, 1161>>, e |-> -60],
                          [m |-> <<14023, 16212, 10692, 1122>>, e |-> -65]>>}
      [] sigma = 2 -> {<<[m |-> <<10164, 491, 1578, 1634>>, e |-> -55],
                          [m |-> <<6531, 9900, 1391, 1442>>, e |-> -55],
                          [m |-> <<11866, 16145, 4243, 1982>>, e |-> -56],
                          [m |-> <<12087, 1851, 439, 1061>>, e |-> -56],
                          [m |-> <<15658, 2431, 3393, 1769>>, e |-> -58],
                          [m |-> <<519, 5000, 12368, 1148>>, e |-> -59],
                          [m |-> <<2349, 11647, 13154, 1161>>, e |-> -61],
                          [m |-> <<7589, 5955, 2956, 1830>>, e |-> -64],
                          [m |-> <<5531, 10128, 10961, 1122>>, e |-> -66]>>}
      [] sigma = 3 -> {<<[m |-> <<407, 10214, 6706, 1089>>, e |-> -55],
                          [m |-> <<12599, 8634, 8799, 1030>>, e |-> -55],
                          [m |-> <<190, 13659, 10839, 1744>>, e |-> -56],
                          [m |-> <<4919, 1727, 8525, 1321>>, e |-> -56],
                          [m |-> <<11410, 1199, 7836, 1791>>, e |-> -57],
                          [m |-> <<4751, 3693, 9609, 1086>>, e |-> -57],
                          [m |-> <<514, 11180, 7932, 1179>>, e |-> -58],
                          [m |-> <<1210, 11085, 11212, 1145>>, e |-> -59],
                          [m |-> <<5126, 5198, 10641, 1991>>, e |-> -61],
                          [m |-> <<5400, 7130, 1430, 1549>>, e |-> -62],
                          [m |-> <<357, 13583, 2650, 1078>>, e |-> -63],
                          [m |-> <<8823, 1319, 15929, 1342>>, e |-> -65],
                          [m |-> <<13062, 894, 14881, 1496>>, e |-> -67]>>,
                        <<[m |-> <<408, 10214, 6706, 1089>>, e |-> -55],
                          [m |-> <<12599, 8634, 8799, 1030>>, e |-> -55],
                          [m |-> <<191, 13659, 10839, 1744>>, e |-> -56],
                          [m |-> <<4919, 1727, 8525, 1321>>, e |-> -56],
                          [m |-> <<11411, 1199, 7836, 1791>>, e |-> -57],
                          [m |-> <<4752, 3693, 9609, 1086>>, e |-> -57],
                          [m |-> <<515, 11180, 7932, 1179>>, e |-> -58],
                          [m |-> <<1208, 11085, 11212, 1145>>, e |-> -59],
                          [m |-> <<5127, 5198, 10641, 1991>>, e |-> -61],
                          [m |-> <<5400, 7130, 1430, 1549>>, e |-> -62],
                          [m |-> <<358, 13583, 2650, 1078>>, e |-> -63],
                          [m |-> <<8819, 1319, 15929, 1342>>, e |-> -65],
                          [m |-> <<13063, 894, 14881, 1496>>, e |-> -67]>>}

Clamp(v, lo, hi) == IF v < lo THEN lo ELSE IF v > hi THEN hi ELSE v

\* scipy.ndimage.correlate1d with symmetric weights, mode='nearest':
\* oline = iline[0] * fw[0], then oline += (iline[jj] + iline[-jj]) * fw[jj]
\* for jj from the farthest offset to the nearest
Correlate1d(a, axis, weights) ==
    LET r == Len(weights) - 1
        n == a.shape[axis]
        at(i, o) == a.data[[i EXCEPT ![axis] = Clamp(i[axis] + o, 0, n - 1)]]
        out(i) ==
            LET acc[j \in 0..r] ==
                    IF j = 0 THEN Mul(at(i, 0), weights[1])
                    ELSE Add(acc[j - 1],
                             Mul(Add(at(i, j - r - 1), at(i, r + 1 - j)), weights[r + 2 - j]))
            IN acc[r]
    IN [shape |-> a.shape, data |-> Stored([i \in DOMAIN a.data |-> out(i)])]

\* an (M, N, 3) array is taken as 2D+RGB: its last axis is not filtered
FilteredAxes(a) ==
    IF Ndim(a) = 3 /\ a.shape[3] = 3 THEN Ndim(a) - 1 ELSE Ndim(a)

\* scipy.ndimage.gaussian_filter: one pass per filtered axis, first axis first
RECURSIVE GaussianFilter(_, _, _)
GaussianFilter(a, weights, k) ==
    IF k = 0 THEN a
    ELSE CHOOSE out \in {Correlate1d(prev, k, weights) :
                             prev \in {GaussianFilter(a, weights, k - 1)}} : TRUE

\* the arrays gaussian returns for sigma >= 0, one per kernel; a negative sigma
\* is refused (see GaussianStep)
Gaussian(a, sigma) ==
    IF sigma = 0 THEN {a}
    ELSE {GaussianFilter(a, weights, FilteredAxes(a)) : weights \in GaussKernel(sigma)}

----------------------------------------------------------------------------
(* skimage.feature.peak_local_max(seeds, min_distance, threshold_rel,
   exclude_border, num_peaks, indices=False) *)

Values(a) == {a.data[i] : i \in DOMAIN a.data}

IsFlat(a) == Cardinality(Values(a)) <= 1

\* ndi.maximum_filter(image, size=2*min_distance+1, mode='constant')
MaximumFilter(a, d, i) ==
    LET inside == {a.data[j] : j \in {j \in DOMAIN a.data : InWindow(i, j, d)}}
        leaves == \E k \in Axes(a.shape) : i[k] - d < 0 \/ i[k] + d > a.shape[k] - 1
    IN NumMax(inside \cup (IF leaves THEN {Num(0)} ELSE {}))

\* NonMaxMask as it would be if min_distance = 0 switched peak finding off
NonMaxMaskZeroOff(a, d) ==
    IF d = 0 THEN {}
    ELSE {i \in DOMAIN a.data : a.data[i] = MaximumFilter(a, d, i)}

NonMaxMask(a, d) == {i \in DOMAIN a.data : a.data[i] = MaximumFilter(a, d, i)}

\* mask[:remove // 2] = mask[-remove // 2:] = False on every axis
ExcludeBorder(a, mask, b) ==
    IF b = 0 THEN mask
    ELSE {i \in mask : \A k \in Axes(a.shape) : i[k] >= b /\ i[k] < a.shape[k] - b}

\* AboveThreshold as it would be with the relative comparison inverted
AboveThresholdInverted(a, mask, t) ==
    LET lo == NumMin(Values(a))
        hi == Mul(FromRatio(t), NumMax(Values(a)))
    IN {i \in mask : Less(lo, a.data[i]) /\ Less(a.data[i], hi)}

\* mask &= image > max(image.min(), threshold_rel * image.max()),
\* threshold_rel = t[1] / t[2]
AboveThreshold(a, mask, t) ==
    LET lo == NumMin(Values(a))
        hi == Mul(FromRatio(t), NumMax(Values(a)))
    IN {i \in mask : Less(lo, a.data[i]) /\ Less(hi, a.data[i])}

PeakCandidates(a, d, t, b) ==
    AboveThreshold(a, ExcludeBorder(a, NonMaxMask(a, d), b), t)

\* generate_seeds: max_seeds == -1 becomes numpy.inf
NumPeaks(max_seeds) ==
    IF max_seeds = -1 THEN [inf |-> TRUE, n |-> 0] ELSE [inf |-> FALSE, n |-> max_seeds]

\* how many coord[idx_maxsort][-num_peaks:] keeps of len candidates:
\* -0 slices from the start, a negative num_peaks drops the -num_peaks lowest
SliceLength(len, n) ==
    IF n > 0 THEN n
    ELSE IF n = 0 THEN len
    ELSE IF len + n > 0 THEN len + n ELSE 0

\* _get_high_intensity_peaks as it would be slicing [:num_peaks], the lowest
GetLowIntensityPeaks(a, mask, num_peaks) ==
    IF ~num_peaks.inf /\ Cardinality(mask) > num_peaks.n
    THEN {K \in SUBSET mask :
            /\ Cardinality(K) = SliceLength(Cardinality(mask), num_peaks.n)
            /\ \A k \in K : \A m \in mask \ K : Leq(a.data[k], a.data[m])}
    ELSE {mask}

\* _get_high_intensity_peaks: the sets argsort(intensities)[-num_peaks:] can be;
\* numpy's default sort is not stable, so any of several equal intensities may
\* come last
GetHighIntensityPeaks(a, mask, num_peaks) ==
    IF ~num_peaks.inf /\ Cardinality(mask) > num_peaks.n
    THEN {K \in SUBSET mask :
            /\ Cardinality(K) = SliceLength(Cardinality(mask), num_peaks.n)
            /\ \A k \in K : \A m \in mask \ K : Leq(a.data[m], a.data[k])}
    ELSE {mask}

PeakLocalMax(a, d, t, b, num_peaks) ==
    IF IsFlat(a) THEN {{}}
    ELSE GetHighIntensityPeaks(a, PeakCandidates(a, d, t, b), num_peaks)

----------------------------------------------------------------------------
(* skimage.morphology.binary_dilation(seeds, s_elem) *)

\* Center as it would be with the origin at the element's first corner
CenterAtCorner(s) == [k \in Axes(s.shape) |-> 0]

Center(s) == [k \in Axes(s.shape) |-> s.shape[k] \div 2]

\* BinaryDilation as it would be with border_value=1
BinaryDilationBorderSet(a, s) ==
    LET c == Center(s)
        src(p, e) == [k \in Axes(a.shape) |-> p[k] - e[k] + c[k]]
        hit(p) == \E e \in TrueSet(s) :
                      src(p, e) \notin DOMAIN a.data \/ a.data[src(p, e)]
    IN [shape |-> a.shape, data |-> [p \in DOMAIN a.data |-> hit(p)]]

BinaryDilation(a, s) ==
    LET on == TrueSet(a)
        c == Center(s)
        hit(p) == \E q \in on : \E e \in TrueSet(s) :
                      \A k \in Axes(a.shape) : p[k] = q[k] + e[k] - c[k]
    IN [shape |-> a.shape, data |-> [p \in DOMAIN a.data |-> hit(p)]]

(* cellprofiler.setting.StructuringElement: skimage.morphology.<shape>(size) *)
Ones(n, w) ==
    LET s == [k \in 1..n |-> w] IN MaskArray(s, Idx(s))

Sphere(n, r) ==
    LET s == [k \in 1..n |-> 2 * r + 1]
        c == [k \in 1..n |-> r]
    IN MaskArray(s, {i \in Idx(s) : Dist2(i, c) <= r * r})

disk(r) == Sphere(2, r)
square(w) == Ones(2, w)
ball(r) == Sphere(3, r)
cube(w) == Ones(3, w)

\* the default disk,1 and an element of even width, in 2D and in 3D
StructuringElements == {disk(1), square(2), ball(1), cube(2)}

----------------------------------------------------------------------------
(* Inputs *)

LabelShapes == {<<2, 3>>, <<1, 2, 2>>, <<1, 1, 3>>}

\* one object: an axis-aligned box of label 1 on background 0, or no object
BoxLabels(shape) ==
    {[shape |-> shape,
      data |-> [i \in Idx(shape) |->
          IF \A k \in Axes(shape) : lo[k] <= i[k] /\ i[k] <= hi[k] THEN 1 ELSE 0]] :
        lo \in Idx(shape), hi \in Idx(shape)}
    \cup {[shape |-> shape, data |-> [i \in Idx(shape) |-> 0]]}

\* one object filling a 3 x 3 array, whole or without its first or last corner: its
\* centre is at distance 2, or sqrt(2), from the background
NotchedLabels ==
    {[shape |-> <<3, 3>>, data |-> [i \in Idx(<<3, 3>>) |-> IF i \in cs THEN 0 ELSE 1]] :
        cs \in {{}, {<<0, 0>>}, {<<2, 2>>}}}

LabelArrays == UNION {BoxLabels(shape) : shape \in LabelShapes} \cup NotchedLabels

\* the Float and Integer settings without minval take negative values too
Sigmas == {-1, 0, 1}
Thresholds == {<<0, 1>>, <<1, 2>>, <<1, 1>>}
Borders == {0, 1}
MaxSeedsChoices == (-2)..MaxSeeds

Settings ==
    [gaussian_sigma : Sigmas,
     min_dist : 0..MaxDist,
     min_intensity : Thresholds,
     exclude_border : Borders,
     max_seeds : MaxSeedsChoices,
     structuring_element : StructuringElements]

----------------------------------------------------------------------------
(* MeasureImageQualityGoogle *)

C_IMAGE_QUALITY == <<"I", "m", "a", "g", "e", "Q", "u", "a", "l", "i", "t", "y">>
F_SCORE == <<"S", "c", "o", "r", "e">>
IMAGE == <<"I", "m", "a", "g", "e">>
COLTYPE_INTEGER == "integer"

\* ImageQualityClassifier(DEFAULT_MODEL_PATH, 84, 11): predict gives a class index
NumClasses == 11

ImageNames == {<<"D", "N", "A">>, <<"G", "F", "P">>, F_SCORE}

Digit(n) == <<"0", "1", "2", "3", "4", "5", "6", "7", "8", "9">>[n + 1]

RECURSIVE Str(_)
Str(n) == IF n < 10 THEN <<Digit(n)>> ELSE Str(n \div 10) \o <<Digit(n % 10)>>

\* C_IMAGE_QUALITY + "_{}_{}".format(name, image), image = self.image_name.value
get_feature_name(self_image_name, name) ==
    C_IMAGE_QUALITY \o <<"_">> \o name \o <<"_">> \o self_image_name

get_measurement_name(self_image_name, name) == get_feature_name(self_image_name, name)

get_measurement_columns(self_image_name) ==
    <<<<IMAGE, get_measurement_name(self_image_name, F_SCORE), COLTYPE_INTEGER>>>>

get_measurements(self_image_name, object_name, category) ==
    IF object_name = IMAGE /\ category = C_IMAGE_QUALITY
    THEN <<C_IMAGE_QUALITY \o <<"_">> \o F_SCORE \o <<"_">> \o self_image_name>>
    ELSE <<>>

MIQIdle ==
    /\ image_name = <<>>
    /\ columns = <<>>
    /\ measurements = <<>>
    /\ statistics = <<>>

InitMIQ ==
    /\ image_name \in ImageNames
    /\ columns = <<>>
    /\ measurements = <<>>
    /\ statistics = <<>>
    /\ pc = "idle"
    /\ labels = NoArray
    /\ settings = [gaussian_sigma |-> 0, min_dist |-> 0, min_intensity |-> <<0, 1>>,
                   exclude_border |-> 0, max_seeds |-> -1,
                   structuring_element |-> NoArray]
    /\ seeds = NoArray
    /\ peak_mask = NoArray
    /\ smoothed = NoArray
    /\ stages = <<>>
    /\ error = NoError
    /\ y = NoArray

\* the pipeline asks the module for its measurement columns
GetMeasurementColumns ==
    /\ columns' = get_measurement_columns(image_name)
    /\ UNCHANGED <<image_name, measurements, statistics>>
    /\ UNCHANGED seedVars

\* MeasureImageQualityGoogle.run on one image set; score is what measure returns
MIQRun ==
    /\ Len(measurements) < MaxImageSets
    /\ \E score \in 0..(NumClasses - 1) :
        LET feature == get_feature_name(image_name, image_name)
            value == Str(score)
        IN /\ statistics' = <<<<feature, value>>>>
           /\ measurements' = Append(measurements, <<image_name, feature, value>>)
    /\ UNCHANGED <<image_name, columns>>
    /\ UNCHANGED seedVars

NextMIQ == GetMeasurementColumns \/ MIQRun

SpecMIQ == InitMIQ /\ [][NextMIQ]_vars

----------------------------------------------------------------------------
(* SeedObjects.run and generate_seeds *)

Init ==
    /\ pc = "start"
    /\ labels \in LabelArrays
    /\ settings \in Settings
    /\ seeds = NoArray
    /\ peak_mask = NoArray
    /\ smoothed = NoArray
    /\ stages = <<>>
    /\ error = NoError
    /\ y = NoArray
    /\ MIQIdle

Format(strel_dim, im_dim) ==
    <<"Structuring element does not match object dimensions: ", strel_dim, " != ", im_dim>>

\* DimsMatch as it would be with the check left out
DimsNotChecked(strel_dim, im_dim) == TRUE

DimsMatch(strel_dim, im_dim) == strel_dim = im_dim

\* SeedObjects.run up to the call of generate_seeds
Run ==
    /\ pc = "start"
    /\ LET strel_dim == Ndim(settings.structuring_element)
           im_dim == Ndim(labels)
       IN IF ~DimsMatch(strel_dim, im_dim)
          THEN /\ pc' = "error"
               /\ error' = [kind |-> "ValueError", message |-> Format(strel_dim, im_dim)]
          ELSE /\ pc' = "generate_seeds"
               /\ error' = error
    /\ UNCHANGED <<labels, settings, seeds, peak_mask, smoothed, stages, y>>
    /\ UNCHANGED miqVars

PadStep ==
    /\ pc = "generate_seeds"
    /\ seeds' = Pad(labels, 1)
    /\ stages' = Append(stages, "pad")
    /\ pc' = "padded"
    /\ UNCHANGED <<labels, settings, peak_mask, smoothed, error, y>>
    /\ UNCHANGED miqVars

DistanceTransformStep ==
    /\ pc = "padded"
    /\ seeds' = DistanceTransformEdt(seeds)
    /\ stages' = Append(stages, "distance_transform_edt")
    /\ pc' = "transformed"
    /\ UNCHANGED <<labels, settings, peak_mask, smoothed, error, y>>
    /\ UNCHANGED miqVars

CropStep ==
    /\ pc = "transformed"
    /\ seeds' = Crop(seeds, 1)
    /\ stages' = Append(stages, "crop")
    /\ pc' = "cropped"
    /\ UNCHANGED <<labels, settings, peak_mask, smoothed, error, y>>
    /\ UNCHANGED miqVars

\* skimage.filters.gaussian refuses a negative sigma
GaussianStep ==
    /\ pc = "cropped"
    /\ IF settings.gaussian_sigma < 0
       THEN /\ pc' = "error"
            /\ error' = [kind |-> "ValueError",
                         message |-> <<"Sigma values less than zero are not valid">>]
            /\ UNCHANGED <<seeds, stages>>
       ELSE /\ seeds' \in Gaussian(seeds, settings.gaussian_sigma)
            /\ stages' = Append(stages, "gaussian")
            /\ pc' = "smoothed"
            /\ error' = error
    /\ UNCHANGED <<labels, settings, peak_mask, smoothed, y>>
    /\ UNCHANGED miqVars

PeakLocalMaxStep ==
    /\ pc = "smoothed"
    /\ \E K \in PeakLocalMax(seeds, settings.min_dist, settings.min_intensity,
                             settings.exclude_border, NumPeaks(settings.max_seeds)) :
        /\ seeds' = MaskArray(seeds.shape, K)
        /\ peak_mask' = MaskArray(seeds.shape, K)
    /\ smoothed' = seeds
    /\ stages' = Append(stages, "peak_local_max")
    /\ pc' = "peaks"
    /\ UNCHANGED <<labels, settings, error, y>>
    /\ UNCHANGED miqVars

\* binary_dilation, and ObjectProcessing.run storing the result as y.segmented;
\* scipy refuses a structure whose rank differs from the input's
BinaryDilationStep ==
    /\ pc = "peaks"
    /\ IF Ndim(settings.structuring_element) # Ndim(seeds)
       THEN /\ pc' = "error"
            /\ error' = [kind |-> "RuntimeError",
                         message |-> <<"structure and input must have same dimensionality">>]
            /\ UNCHANGED <<seeds, stages, y>>
       ELSE /\ seeds' = BinaryDilation(seeds, settings.structuring_element)
            /\ y' = BinaryDilation(seeds, settings.structuring_element)
            /\ stages' = Append(stages, "binary_dilation")
            /\ pc' = "done"
            /\ error' = error
    /\ UNCHANGED <<labels, settings, peak_mask, smoothed>>
    /\ UNCHANGED miqVars

Next ==
    \/ Run
    \/ PadStep
    \/ DistanceTransformStep
    \/ CropStep
    \/ GaussianStep
    \/ PeakLocalMaxStep
    \/ BinaryDilationStep

Spec == Init /\ [][Next]_vars

----------------------------------------------------------------------------
(* peak_local_max alone, on any small non-negative field *)

\* every 1 x 3 and 2 x 2 field of intensities 0..MaxIntensity, and every 3 x 3
\* field of zeros and ones with at most MaxSeeds + 1 ones (enough to exceed
\* max_seeds)
Fields ==
    {[shape |-> <<1, 3>>, data |-> [i \in Idx(<<1, 3>>) |-> Num(f[i])]] :
        f \in [Idx(<<1, 3>>) -> 0..MaxIntensity]}
    \cup {[shape |-> <<2, 2>>, data |-> [i \in Idx(<<2, 2>>) |-> Num(f[i])]] :
              f \in [Idx(<<2, 2>>) -> 0..MaxIntensity]}
    \cup {[shape |-> <<3, 3>>,
           data |-> [i \in Idx(<<3, 3>>) |-> IF i \in on THEN Num(1) ELSE Num(0)]] :
              on \in {S \in SUBSET Idx(<<3, 3>>) : Cardinality(S) <= MaxSeeds + 1}}

InitPeak ==
    /\ pc = "smoothed"
    /\ seeds \in Fields
    /\ settings \in {s \in Settings :
                        s.gaussian_sigma = 0 /\ s.structuring_element = disk(1)}
    /\ labels = NoArray
    /\ peak_mask = NoArray
    /\ smoothed = NoArray
    /\ stages = <<"pad", "distance_transform_edt", "crop", "gaussian">>
    /\ error = NoError
    /\ y = NoArray
    /\ MIQIdle

NextPeak == PeakLocalMaxStep

SpecPeak == InitPeak /\ [][NextPeak]_vars

----------------------------------------------------------------------------
(* Properties *)

AllZero(a) == a # NoArray /\ \A i \in DOMAIN a.data : a.data[i] = 0

Mismatched == Ndim(settings.structuring_element) # Ndim(labels)

\* what the threshold, border and window rules leave of the smoothed field
Candidates ==
    PeakCandidates(smoothed, settings.min_dist, settings.min_intensity,
                   settings.exclude_border)

Kept == TrueSet(peak_mask)

\* the order of numpy.nonzero's coordinates: the last axis varies fastest
RowMajorBefore(p, q) ==
    \E k \in DOMAIN p : p[k] < q[k] /\ \A j \in 1..(k - 1) : p[j] = q[j]

Intensity(i) == smoothed.data[i]

\* the number of peaks peak_local_max keeps with min_distance d and threshold t
CountWith(d, t) ==
    {Cardinality(K) : K \in PeakLocalMax(smoothed, d, t, settings.exclude_border,
                                         NumPeaks(settings.max_seeds))}

\* u * a <= v * b in real numbers, for array values u, v and integers a, b
ScaledLeq(u, a, v, b) ==
    LET e0 == IF u = Zero THEN v.e ELSE IF v = Zero \/ u.e < v.e THEN u.e ELSE v.e
        scaled(w, c) == IF w = Zero THEN <<>> ELSE ShiftLeft(Times(w.m, c), w.e - e0)
    IN BigLeq(scaled(u, a), scaled(v, b))

RatLeq(t1, t2) == t1[1] * t2[2] <= t2[1] * t1[2]

\* C1: when the structuring element's rank differs from the label array's,
\* run ends in a ValueError whose message names both ranks, and no numeric
\* stage has run and no seed mask exists.
C1_MismatchFailsFast ==
    (Mismatched /\ pc # "start") =>
        /\ pc = "error"
        /\ error = [kind |-> "ValueError",
                    message |-> Format(Ndim(settings.structuring_element), Ndim(labels))]
        /\ stages = <<>>
        /\ seeds = NoArray
        /\ peak_mask = NoArray
        /\ y = NoArray

C1_Witness ==
    /\ pc = "error"
    /\ Ndim(settings.structuring_element) = 2
    /\ Ndim(labels) = 3
    /\ error.message[2] = 2
    /\ error.message[4] = 3

\* C2: the buffer is one layer larger on every side between pad and crop,
\* has the input's shape from crop on, and the returned seed mask has
\* exactly the input's shape.
C2_ShapePreserved ==
    /\ pc \in {"padded", "transformed"} =>
           seeds.shape = [k \in Axes(labels.shape) |-> labels.shape[k] + 2]
    /\ pc \in {"cropped", "smoothed", "peaks"} =>
           seeds.shape = labels.shape /\ DOMAIN seeds.data = DOMAIN labels.data
    /\ pc = "done" =>
           y.shape = labels.shape /\ DOMAIN y.data = DOMAIN labels.data

C2_Witness ==
    /\ pc = "done"
    /\ labels.shape = <<1, 2, 2>>
    /\ y.shape = <<1, 2, 2>>
    /\ TrueSet(y) # {}

\* C3: before dilation there are at most max_seeds peaks when max_seeds is
\* positive; with max_seeds = -1 every candidate is kept; and when there are
\* more candidates than max_seeds, exactly max_seeds are kept and no dropped
\* candidate is brighter than a kept one.
C3_AtMostMaxSeeds ==
    pc = "peaks" =>
        LET cand == Candidates
            kept == Kept
            dropped == cand \ kept
        IN /\ kept \subseteq cand
           /\ settings.max_seeds > 0 => Cardinality(kept) <= settings.max_seeds
           /\ settings.max_seeds = -1 => kept = cand
           /\ (settings.max_seeds > 0 /\ Cardinality(cand) > settings.max_seeds) =>
                  /\ Cardinality(kept) = settings.max_seeds
                  /\ \A k \in kept : \A m \in dropped : Leq(Intensity(m), Intensity(k))

C3_Witness ==
    /\ pc = "peaks"
    /\ settings.max_seeds > 0
    /\ Cardinality(Candidates) > settings.max_seeds
    /\ Cardinality(Kept) = settings.max_seeds
    /\ \E k \in Kept : \E m \in Candidates \ Kept : Less(Intensity(m), Intensity(k))

\* C4: with max_seeds = 1 and at least one candidate, exactly one peak is
\* kept, it is a candidate of the greatest intensity among the candidates,
\* and of several candidates of that intensity it is the first in row-major
\* coordinate order.
C4_SingleSeedAtMaximum ==
    (pc = "peaks" /\ settings.max_seeds = 1) =>
        LET cand == Candidates
            kept == Kept
        IN cand # {} =>
               /\ Cardinality(kept) = 1
               /\ \A k \in kept :
                      /\ k \in cand
                      /\ \A m \in cand :
                             /\ Leq(Intensity(m), Intensity(k))
                             /\ (Intensity(m) = Intensity(k) /\ m # k) => RowMajorBefore(k, m)

\* C5: on the same field with the other parameters fixed, no larger
\* min_distance gives more peaks than the min_distance that was used.
C5_MinDistanceMonotone ==
    pc = "peaks" =>
        LET n == Cardinality(Kept)
        IN \A d2 \in (settings.min_dist + 1)..MaxDist :
               \A n2 \in CountWith(d2, settings.min_intensity) : n2 <= n

C5_Witness ==
    /\ pc = "peaks"
    /\ settings.min_dist = 1
    /\ Cardinality(Kept) >= 2
    /\ \E n2 \in CountWith(2, settings.min_intensity) : 0 < n2 /\ n2 < Cardinality(Kept)

\* C6: on the same field with the other parameters fixed, no larger
\* threshold_rel gives more peaks than the threshold_rel that was used, and
\* every peak's intensity is at least threshold_rel times the field's maximum.
C6_ThresholdMonotone ==
    pc = "peaks" =>
        LET n == Cardinality(Kept)
        IN /\ \A t2 \in Thresholds :
                  (RatLeq(settings.min_intensity, t2) /\ t2 # settings.min_intensity) =>
                      \A n2 \in CountWith(settings.min_dist, t2) : n2 <= n
           /\ \A k \in Kept : ScaledLeq(NumMax(Values(smoothed)), settings.min_intensity[1],
                                       Intensity(k), settings.min_intensity[2])

C6_Witness ==
    /\ pc = "peaks"
    /\ settings.min_intensity = <<0, 1>>
    /\ Cardinality(Kept) >= 2
    /\ \E n2 \in CountWith(settings.min_dist, <<1, 2>>) :
           0 < n2 /\ n2 < Cardinality(Kept)

\* C7: for an all-zero label array (with a structuring element of its rank
\* and a sigma that is not negative) no error is raised, every stage up to
\* the last can be taken, and the seed mask returned is all False and of the
\* input's shape.
C7_AllZeroGivesEmptyMask ==
    (AllZero(labels) /\ ~Mismatched /\ settings.gaussian_sigma >= 0) =>
        /\ error = NoError
        /\ pc # "done" => ENABLED Next
        /\ pc = "done" => TrueSet(y) = {} /\ y.shape = labels.shape

C7_Witness ==
    /\ pc = "done"
    /\ AllZero(labels)
    /\ settings.gaussian_sigma = 1
    /\ settings.min_dist = 0
    /\ settings.min_intensity = <<0, 1>>
    /\ settings.max_seeds = -1
    /\ Cardinality(TrueSet(settings.structuring_element)) > 1
    /\ TrueSet(y) = {}

\* C8: every pixel that peak_local_max set is still set in the seed mask
\* that dilation returns.
C8_DilationExtensive ==
    pc = "done" => TrueSet(peak_mask) \subseteq TrueSet(y)

C8_Witness ==
    /\ pc = "done"
    /\ settings.structuring_element = square(2)
    /\ TrueSet(peak_mask) # {}
    /\ TrueSet(peak_mask) # TrueSet(y)
    /\ TrueSet(peak_mask) \subseteq TrueSet(y)

\* C9: no two peaks kept by peak extraction are closer to each other than
\* min_distance.
C9_PeaksSeparated ==
    pc \in {"peaks", "done"} =>
        \A p \in Kept : \A q \in Kept :
            p # q => Dist2(p, q) >= settings.min_dist * settings.min_dist

\* C10: the feature name run records for an image set is one of the feature
\* names get_measurement_columns declares and get_measurements reports.
C10_RecordedFeatureDeclared ==
    \A k \in 1..Len(measurements) :
        /\ \E j \in 1..Len(get_measurement_columns(image_name)) :
               measurements[k][2] = get_measurement_columns(image_name)[j][2]
        /\ \E j \in 1..Len(get_measurements(image_name, IMAGE, C_IMAGE_QUALITY)) :
               measurements[k][2] = get_measurements(image_name, IMAGE, C_IMAGE_QUALITY)[j]

====
